---- MODULE Spec2Model ----
(***************************************************************************)
(* A model of pkg/cmd/step/helm/step_helm.go (jx): the handlers of         *)
(* StepHelmOptions that fill in missing dependency versions of a helm      *)
(* requirements file from the version stream, and that overlay the         *)
(* provider specific values over the base values of a chart.               *)
(*                                                                         *)
(* Strings are TLA+ strings; "" is Go's empty string.  A Go error is a     *)
(* string naming the place that raised it, "" being nil.  A []byte of YAML *)
(* is a record that keeps what the bytes decode to and whether they are    *)
(* in the encoder's own layout, so that decoding and encoding again is     *)
(* not the identity on hand written files.                                 *)
(***************************************************************************)
EXTENDS Naturals, Sequences, FiniteSets

VARIABLES
    file,             \* the requirements file on disk
    catalog,          \* the version stream: (kind, name) -> (version, error)
    prefixes,         \* the version stream's repository URL -> prefix map
    versionResolver,  \* StepHelmOptions.versionResolver (Nil or an instance)
    created,          \* number of CreateVersionResolver calls so far
    last              \* what the latest handler call did and returned

vars == <<file, catalog, prefixes, versionResolver, created, last>>

----------------------------------------------------------------------------
(* Bounds of the model *)

\* longest dependency list of a requirements file
MaxDeps == 2

\* most CreateVersionResolver calls of one command execution
MaxCreate == 2

----------------------------------------------------------------------------
(* The data *)

\* a nil *versionstream.VersionResolver
Nil == 0

\* versionstream.KindChart
KindChart == "charts"

Names == {"n1", "n2"}
Aliases == {"", "a1"}
Repositories == {"", "r1", "r2"}
Versions == {"", "0.1"}

\* helm.Dependency: the fields the handler reads or writes.  The pinned
\* dependencies are of chart n1 from r1 or from no repository; those with
\* no version are n1 from every repository, n1 under an alias, and n2.
Dependency ==
    { d \in [Name : Names, Alias : Aliases,
             Repository : Repositories, Version : Versions] :
        /\ d.Version # "" => (d.Name = "n1" /\ d.Alias = "" /\ d.Repository # "r2")
        /\ d.Alias # "" => (d.Name = "n1" /\ d.Repository = "r1")
        /\ d.Name = "n2" => d.Repository = "r1" }

\* helm.Requirements.Dependencies: the lists of at most MaxDeps dependencies
DependencyLists == UNION {[1..n -> Dependency] : n \in 0..MaxDeps}

\* The file at dir/requirements.yaml: absent, or the YAML of a dependency
\* list either hand written or in the layout helm.SaveFile writes.
NoFile == [exists |-> FALSE, deps |-> <<>>, canonical |-> FALSE]

Files ==
    {NoFile} \cup [exists : {TRUE}, deps : DependencyLists, canonical : BOOLEAN]

\* The repository prefixes of the version stream: "" is no prefix.
PrefixMaps ==
    { [r \in {"r1"} |-> "p"],
      [r \in {"r1", "r2"} |-> IF r = "r1" THEN "p" ELSE "q"] }

\* What a lookup in the version stream answers: a version and an error.
Answer(v, e) == [version |-> v, err |-> e]

\* The version streams: each answers for the chart p/n1 with a version or
\* with an error beside a version, for p/n2 with a version or with no
\* version, and holds other versions under p/a1 and under other kinds.
Catalogs ==
    { [k \in {<<KindChart, "p/n1">>, <<KindChart, "p/n2">>,
              <<KindChart, "p/a1">>, <<"packages", "p/n1">>} |->
          CASE k = <<KindChart, "p/n1">> -> a1
            [] k = <<KindChart, "p/n2">> -> a2
            [] k = <<KindChart, "p/a1">> -> Answer("7.7", FALSE)
            [] OTHER -> Answer("3.3", FALSE)] :
      a1 \in {Answer("1.0", FALSE), Answer("9.9", TRUE)},
      a2 \in {Answer("2.0", FALSE), Answer("", FALSE)} }

----------------------------------------------------------------------------
(* The collaborators of the handlers *)

\* versionstream.RepositoryPrefixes.PrefixForURL: "" when the URL has none
PrefixForURL(pm, repo) == IF repo \in DOMAIN pm THEN pm[repo] ELSE ""

\* versionstream.VersionResolver.StableVersionNumber: what the version
\* stream holds, and no version and no error for what it does not hold
StableVersionNumber(cat, kind, name) ==
    IF <<kind, name>> \in DOMAIN cat THEN cat[<<kind, name>>]
    ELSE Answer("", FALSE)

\* What CreateVersionResolver can return: a resolver, an error with a nil
\* resolver, or an error beside a resolver.
CreateOutcomes == {"ok", "fail_nil", "fail_ptr"}

\* opts.CommonOptions.CreateVersionResolver: the n+1st instance it makes
CreateVersionResolver(n, outcome) ==
    [ptr |-> IF outcome = "fail_nil" THEN Nil ELSE n + 1,
     err |-> IF outcome = "ok" THEN "" ELSE "CreateVersionResolver"]

\* helm.LoadRequirementsFile: the dependency list the file's YAML decodes to
LoadRequirementsFile(f) == f.deps

\* helm.SaveFile: the file rewritten whole, in the encoder's layout
SaveFile(req) == [exists |-> TRUE, deps |-> req, canonical |-> TRUE]

----------------------------------------------------------------------------
(* getOrCreateVersionResolver *)

\* A variant that constructs a resolver on every call.
getOrCreateVersionResolverAlways(vr, n, outcome) ==
    LET c == CreateVersionResolver(n, outcome)
    IN  [versionResolver |-> c.ptr, err |-> c.err, calls |-> 1]

\* The memoized resolver, made on first need: the field is assigned
\* whatever CreateVersionResolver returned before the error is looked at.
getOrCreateVersionResolver(vr, n, outcome) ==
    IF vr = Nil
    THEN LET c == CreateVersionResolver(n, outcome)
         IN  [versionResolver |-> c.ptr, err |-> c.err, calls |-> 1]
    ELSE [versionResolver |-> vr, err |-> "", calls |-> 0]

----------------------------------------------------------------------------
(* verifyRequirementsYAML *)

\* The events a run leaves: a prefix lookup or a catalog query for the
\* i-th dependency.
PrefixEvent(i, repo) ==
    [op |-> "prefix", i |-> i, kind |-> "", name |-> repo, inst |-> Nil]

QueryEvent(i, kind, name, inst) ==
    [op |-> "query", i |-> i, kind |-> kind, name |-> name, inst |-> inst]

\* How the loop ends: the list in memory, the flag, the error, the events.
LoopResult(req, modified, err, events) ==
    [req |-> req, modified |-> modified, err |-> err, events |-> events]

\* A variant that asks for the chart under the dependency's alias.
fullChartNameAlias(prefix, dep) ==
    prefix \o "/" \o (IF dep.Alias # "" THEN dep.Alias ELSE dep.Name)

\* The chart name the catalog is asked for.
fullChartName(prefix, dep) == prefix \o "/" \o dep.Name

\* A variant that looks every dependency up.
hasVersionNever(dep) == FALSE

\* Whether the loop leaves a dependency alone: it has a version.
hasVersion(dep) == dep.Version # ""

\* The body of the loop for the i-th dependency, one without a version:
\* the error it returns with, or the version found, and the events.
verifyDependency(resolver, pm, cat, dep, i) ==
    LET repo == dep.Repository IN
    IF repo = ""
    THEN [err |-> "MissingRepository", version |-> "", events |-> <<>>]
    ELSE
      LET prefix == PrefixForURL(pm, repo)
          ev1 == <<PrefixEvent(i, repo)>>
      IN
      IF prefix = ""
      THEN [err |-> "NoPrefix", version |-> "", events |-> ev1]
      ELSE
        LET chart == fullChartName(prefix, dep)
            ans == StableVersionNumber(cat, KindChart, chart)
            ev2 == Append(ev1, QueryEvent(i, KindChart, chart, resolver))
        IN
        IF ans.err THEN [err |-> "Catalog", version |-> "", events |-> ev2]
        ELSE IF ans.version = ""
        THEN [err |-> "NoVersionFound", version |-> "", events |-> ev2]
        ELSE [err |-> "", version |-> ans.version, events |-> ev2]

\* A variant of the loop that notes the first error and goes on to the
\* next dependency.
RECURSIVE verifyLoopGoesOn(_, _, _, _, _, _, _, _)
verifyLoopGoesOn(resolver, pm, cat, req, i, modified, events, err) ==
    IF i > Len(req) THEN LoopResult(req, modified, err, events)
    ELSE IF hasVersion(req[i])
    THEN verifyLoopGoesOn(resolver, pm, cat, req, i + 1, modified, events, err)
    ELSE
      LET d == verifyDependency(resolver, pm, cat, req[i], i) IN
      IF d.err # ""
      THEN verifyLoopGoesOn(resolver, pm, cat, req, i + 1, modified,
                            events \o d.events, IF err = "" THEN d.err ELSE err)
      ELSE verifyLoopGoesOn(resolver, pm, cat,
                            [req EXCEPT ![i].Version = d.version],
                            i + 1, TRUE, events \o d.events, err)

verifyLoopContinues(resolver, pm, cat, req, i, modified, events) ==
    verifyLoopGoesOn(resolver, pm, cat, req, i, modified, events, "")

\* The loop over req.Dependencies from the i-th on.  The list holds
\* pointers, so setting dep.Version sets it in req; the first error returns.
RECURSIVE verifyLoop(_, _, _, _, _, _, _)
verifyLoop(resolver, pm, cat, req, i, modified, events) ==
    IF i > Len(req) THEN LoopResult(req, modified, "", events)
    ELSE IF hasVersion(req[i])
    THEN verifyLoop(resolver, pm, cat, req, i + 1, modified, events)
    ELSE
      LET d == verifyDependency(resolver, pm, cat, req[i], i) IN
      IF d.err # "" THEN LoopResult(req, modified, d.err, events \o d.events)
      ELSE verifyLoop(resolver, pm, cat,
                      [req EXCEPT ![i].Version = d.version],
                      i + 1, TRUE, events \o d.events)

\* What a run of verifyRequirementsYAML returns and leaves behind.
VerifyResult(err, f, loaded, before, loop, saveCalled) ==
    [err |-> err, file |-> f, loaded |-> loaded, before |-> before,
     req |-> loop.req, modified |-> loop.modified, events |-> loop.events,
     saveCalled |-> saveCalled]

\* A variant that saves whatever the loop did.
shouldSaveAlways(loop) == TRUE

\* A variant with the test of the flag the wrong way round.
shouldSaveOnClean(loop) == ~loop.modified

\* Whether the file is saved once the loop is through.
shouldSave(loop) == loop.modified

\* A variant that saves what the loop resolved before it returns the
\* loop's error.
verifyRequirementsYAMLSavesFirst(resolver, pm, cat, f, loadOk, saveOk) ==
    IF ~loadOk
    THEN VerifyResult("Load", f, FALSE, <<>>,
                      LoopResult(<<>>, FALSE, "", <<>>), FALSE)
    ELSE
      LET before == LoadRequirementsFile(f)
          loop == verifyLoop(resolver, pm, cat, before, 1, FALSE, <<>>)
      IN
      IF shouldSave(loop)
      THEN IF saveOk
           THEN VerifyResult(loop.err, SaveFile(loop.req), TRUE, before, loop, TRUE)
           ELSE VerifyResult("Save", f, TRUE, before, loop, TRUE)
      ELSE VerifyResult(loop.err, f, TRUE, before, loop, FALSE)

\* verifyRequirementsYAML on file f; loadOk and saveOk say whether reading
\* and writing the file succeed.  A failed write leaves the file as it was.
verifyRequirementsYAML(resolver, pm, cat, f, loadOk, saveOk) ==
    IF ~loadOk
    THEN VerifyResult("Load", f, FALSE, <<>>,
                      LoopResult(<<>>, FALSE, "", <<>>), FALSE)
    ELSE
      LET before == LoadRequirementsFile(f)
          loop == verifyLoop(resolver, pm, cat, before, 1, FALSE, <<>>)
      IN
      IF loop.err # "" THEN VerifyResult(loop.err, f, TRUE, before, loop, FALSE)
      ELSE IF shouldSave(loop)
      THEN IF saveOk
           THEN VerifyResult("", SaveFile(loop.req), TRUE, before, loop, TRUE)
           ELSE VerifyResult("Save", f, TRUE, before, loop, TRUE)
      ELSE VerifyResult("", f, TRUE, before, loop, FALSE)

----------------------------------------------------------------------------
(* The record of a handler call *)

EmptyBytes == [kind |-> "empty"]

NoCall ==
    [op |-> "none", err |-> "", created |-> 0,
     prevOk |-> FALSE, prevModified |-> FALSE,
     fileBefore |-> NoFile, loaded |-> FALSE, before |-> <<>>, req |-> <<>>,
     modified |-> FALSE, events |-> <<>>, saveCalled |-> FALSE,
     provider |-> "", exists |-> "unchecked", valuesData |-> EmptyBytes,
     rendered |-> FALSE, overrideData |-> EmptyBytes, ret |-> EmptyBytes,
     lookups |-> <<>>]

----------------------------------------------------------------------------
(* replaceMissingVersionsFromVersionStream *)

\* The step of the file system or of the version stream that fails in a
\* call, if any: each handler returns at the first failure, so one is enough.
ReplaceFaults == {"", "FileExists", "GetRepositoryPrefixes", "Load", "Save"}

\* The handler's result: the record of the call, the file and the resolver.
\* cr is what CreateVersionResolver returns if it is called.
replaceMissingVersionsFromVersionStream(fault, cr) ==
    LET call == [NoCall EXCEPT !.op = "replace", !.fileBefore = file,
                               !.prevOk = (last.op = "replace" /\ last.err = ""),
                               !.prevModified = last.modified]
    IN
    IF fault = "FileExists"
    THEN [call |-> [call EXCEPT !.err = "FileExists"],
          file |-> file, versionResolver |-> versionResolver]
    ELSE IF ~file.exists
    THEN [call |-> call, file |-> file, versionResolver |-> versionResolver]
    ELSE
      LET g == getOrCreateVersionResolver(versionResolver, created, cr)
          c1 == [call EXCEPT !.created = g.calls]
      IN
      IF g.err # ""
      THEN [call |-> [c1 EXCEPT !.err = g.err],
            file |-> file, versionResolver |-> g.versionResolver]
      ELSE IF fault = "GetRepositoryPrefixes"
      THEN [call |-> [c1 EXCEPT !.err = "GetRepositoryPrefixes"],
            file |-> file, versionResolver |-> g.versionResolver]
      ELSE
        LET v == verifyRequirementsYAML(g.versionResolver, prefixes, catalog,
                                        file, fault # "Load", fault # "Save")
        IN [call |-> [c1 EXCEPT !.err = v.err, !.loaded = v.loaded,
                                !.before = v.before, !.req = v.req,
                                !.modified = v.modified, !.events = v.events,
                                !.saveCalled = v.saveCalled],
            file |-> v.file, versionResolver |-> g.versionResolver]

ReplaceMissingVersions ==
    \E fault \in ReplaceFaults, cr \in CreateOutcomes :
        \E r \in {replaceMissingVersionsFromVersionStream(fault, cr)} :
            /\ created + r.call.created <= MaxCreate
            /\ file' = r.file
            /\ versionResolver' = r.versionResolver
            /\ created' = created + r.call.created
            /\ last' = r.call
            /\ UNCHANGED <<catalog, prefixes>>

----------------------------------------------------------------------------
(* The values of a chart *)

\* A values tree is a mapping from keys to nodes; a node is a leaf (a
\* scalar, a sequence or null) or holds a mapping in its field m.
Keys == {"a", "b"}

Leaves ==
    { [t |-> "scalar", v |-> "x"], [t |-> "seq", v |-> "[x]"],
      [t |-> "null", v |-> ""] }

IsMapping(node) == "m" \in DOMAIN node

MappingsOver(nodes) == UNION {[ks -> nodes] : ks \in SUBSET Keys}

\* the mappings of leaves, and those that may hold one more level
FlatMappings == MappingsOver(Leaves)
Mappings == MappingsOver(Leaves \cup {[m |-> f] : f \in FlatMappings})

\* The bytes of a values file: none, YAML that does not decode to a
\* mapping, or the YAML of a mapping, in the encoder's layout or not.
BadBytes == [kind |-> "bad"]
Yaml(tree, canonical) == [kind |-> "yaml", tree |-> tree, canonical |-> canonical]

\* helm.LoadValues: no bytes decode to the empty mapping
LoadValues(data) ==
    CASE data.kind = "empty" -> [err |-> "", tree |-> <<>>]
      [] data.kind = "bad" -> [err |-> "LoadValues", tree |-> <<>>]
      [] OTHER -> [err |-> "", tree |-> data.tree]

\* yaml.Marshal of a mapping
Marshal(tree) == Yaml(tree, TRUE)

\* util.CombineMapTrees: input is merged into destination key by key;
\* where both hold a mapping the two are combined, elsewhere the input's
\* value is put in place of the destination's.
RECURSIVE CombineMapTrees(_, _)
CombineMapTrees(destination, input) ==
    [k \in (DOMAIN destination) \cup (DOMAIN input) |->
        IF k \notin DOMAIN input THEN destination[k]
        ELSE IF /\ k \in DOMAIN destination
                /\ IsMapping(destination[k])
                /\ IsMapping(input[k])
        THEN [m |-> CombineMapTrees(destination[k].m, input[k].m)]
        ELSE input[k]]

----------------------------------------------------------------------------
(* createFuncMap and the template function versionStream *)

\* What one call of the template function did: the lookup it made, the
\* answer of the version stream, and the string it returned.
Lookup(kind, name, inst, ans, result) ==
    [kind |-> kind, name |-> name, inst |-> inst,
     version |-> ans.version, err |-> ans.err, result |-> result]

\* The closure createFuncMap puts under "versionStream": it logs an error
\* of the lookup and returns the version the lookup returned.
versionStream(resolver, cat, kindString, name) ==
    LET ans == StableVersionNumber(cat, kindString, name)
    IN  Lookup(kindString, name, resolver, ans, ans.version)

\* createFuncMap: the resolver the function is bound to, or the error
createFuncMap(vr, n, outcome) == getOrCreateVersionResolver(vr, n, outcome)

\* A provider's values.tmpl.yaml: the calls of versionStream it makes and
\* the bytes it renders to.
Template(lookups, out) == [lookups |-> lookups, out |-> out]

\* helm.ReadValuesYamlFileTemplateOutput: the template run with the
\* function map; a template that does not parse calls nothing.
ReadValuesYamlFileTemplateOutput(tmpl, resolver, cat, fault) ==
    IF fault = "Render"
    THEN [err |-> "Render", data |-> EmptyBytes, lookups |-> <<>>]
    ELSE [err |-> "", data |-> tmpl.out,
          lookups |-> [j \in 1..Len(tmpl.lookups) |->
                          versionStream(resolver, cat,
                                        tmpl.lookups[j][1], tmpl.lookups[j][2])]]

----------------------------------------------------------------------------
(* overwriteProviderValues *)

\* A variant that merges the values over the overrides.
applyOverridesSwapped(values, overrides) == CombineMapTrees(overrides, values)

\* The overrides applied and the result encoded: the tail of the handler.
applyOverrides(values, overrides) == CombineMapTrees(values, overrides)

\* A variant that goes on to decode and merge an empty rendering.
isEmptyOutputNever(overrideData) == FALSE

\* Whether the rendered overrides are empty.
isEmptyOutput(overrideData) == overrideData.kind = "empty"

\* The handler's result: the record of the call and the resolver.  exists
\* says whether the provider's template is there, cr what
\* CreateVersionResolver returns if it is called.
overwriteProviderValues(provider, valuesData, tmpl, exists, fault, cr) ==
    LET call == [NoCall EXCEPT !.op = "overwrite", !.provider = provider,
                               !.valuesData = valuesData, !.ret = valuesData]
    IN
    IF provider = ""
    THEN [call |-> call, versionResolver |-> versionResolver]
    ELSE IF fault = "FileExists"
    THEN [call |-> [call EXCEPT !.err = "FileExists", !.exists = "err"],
          versionResolver |-> versionResolver]
    ELSE IF ~exists
    THEN [call |-> [call EXCEPT !.exists = "no"],
          versionResolver |-> versionResolver]
    ELSE
      LET g == createFuncMap(versionResolver, created, cr)
          c1 == [call EXCEPT !.exists = "yes", !.created = g.calls]
      IN
      IF g.err # ""
      THEN [call |-> [c1 EXCEPT !.err = g.err],
            versionResolver |-> g.versionResolver]
      ELSE
        LET r == ReadValuesYamlFileTemplateOutput(tmpl, g.versionResolver,
                                                  catalog, fault)
            c2 == [c1 EXCEPT !.rendered = TRUE, !.overrideData = r.data,
                             !.lookups = r.lookups]
        IN
        IF r.err # ""
        THEN [call |-> [c2 EXCEPT !.err = r.err],
              versionResolver |-> g.versionResolver]
        ELSE IF isEmptyOutput(r.data)
        THEN [call |-> c2, versionResolver |-> g.versionResolver]
        ELSE
          LET values == LoadValues(valuesData)
              overrides == LoadValues(r.data)
          IN
          IF values.err # ""
          THEN [call |-> [c2 EXCEPT !.err = values.err],
                versionResolver |-> g.versionResolver]
          ELSE IF overrides.err # ""
          THEN [call |-> [c2 EXCEPT !.err = overrides.err],
                versionResolver |-> g.versionResolver]
          ELSE [call |-> [c2 EXCEPT !.ret =
                    Marshal(applyOverrides(values.tree, overrides.tree))],
                versionResolver |-> g.versionResolver]

\* cluster.provider of the requirements: none, or one
Providers == {"", "gke"}

\* The step that fails in a call of overwriteProviderValues, if any.
OverwriteFaults == {"", "FileExists", "Render"}

\* The template of a call that does not come to render one.
NoTemplate == Template(<<>>, EmptyBytes)

\* Whether a call comes to render the provider's template.
Renders(provider, exists, fault, cr) ==
    /\ provider # ""
    /\ exists
    /\ fault = ""
    /\ (versionResolver # Nil \/ cr = "ok")

\* A call of the handler on values and a template drawn from the sets; a
\* template is drawn only for a call that renders it.
OverwriteCall(valuesSet, templates) ==
    \E provider \in Providers, valuesData \in valuesSet,
       exists \in BOOLEAN, fault \in OverwriteFaults,
       cr \in CreateOutcomes :
        \E tmpl \in IF Renders(provider, exists, fault, cr)
                    THEN templates ELSE {NoTemplate} :
            \E r \in {overwriteProviderValues(provider, valuesData, tmpl,
                                              exists, fault, cr)} :
                /\ created + r.call.created <= MaxCreate
                /\ versionResolver' = r.versionResolver
                /\ created' = created + r.call.created
                /\ last' = r.call
                /\ UNCHANGED <<file, catalog, prefixes>>

----------------------------------------------------------------------------
(* The specification of the version resolution *)

Init ==
    /\ file \in Files
    /\ catalog \in Catalogs
    /\ prefixes \in PrefixMaps
    /\ versionResolver = Nil
    /\ created = 0
    /\ last = NoCall

Next == ReplaceMissingVersions

Spec == Init /\ [][Next]_vars

----------------------------------------------------------------------------
(* The specification of the provider overrides: one call of the handler  *)
(* on every pair of values and rendered overrides                         *)

AllValues ==
    {EmptyBytes, BadBytes} \cup {Yaml(t, c) : t \in Mappings, c \in BOOLEAN}

AllTemplates ==
    {Template(<<>>, out) :
        out \in {EmptyBytes, BadBytes} \cup {Yaml(t, FALSE) : t \in Mappings}}

InitValues ==
    /\ Init
    /\ file = NoFile
    /\ DOMAIN prefixes = {"r1"}
    /\ \A k \in DOMAIN catalog : ~catalog[k].err /\ catalog[k].version # ""

OverwriteProviderValues ==
    /\ last.op = "none"
    /\ OverwriteCall(AllValues, AllTemplates)

NextValues == OverwriteProviderValues

SpecValues == InitValues /\ [][NextValues]_vars

----------------------------------------------------------------------------
(* The specification of one command execution: the two handlers called   *)
(* in any order on one StepHelmOptions                                    *)

CmdFiles == {f \in Files : Len(f.deps) <= 1}

CmdValues ==
    { EmptyBytes, Yaml(<<>>, FALSE),
      Yaml([k \in {"a"} |-> [t |-> "scalar", v |-> "x"]], TRUE),
      Yaml([k \in {"a"} |-> [t |-> "scalar", v |-> "x"]], FALSE) }

CmdLookups ==
    { <<>>, << <<"packages", "p/n1">>, <<KindChart, "p/n1">> >> }

CmdTemplates ==
    {Template(l, out) :
        l \in CmdLookups,
        out \in {EmptyBytes,
                 Yaml([k \in {"a"} |-> [t |-> "null", v |-> ""]], FALSE)}}

InitCmd ==
    /\ Init
    /\ file \in CmdFiles
    /\ DOMAIN prefixes = {"r1"}

ApplyProviderOverrides == OverwriteCall(CmdValues, CmdTemplates)

NextCmd ==
    \/ ReplaceMissingVersions
    \/ ApplyProviderOverrides

SpecCmd == InitCmd /\ [][NextCmd]_vars

----------------------------------------------------------------------------
(* What the claims speak of *)

\* The errors of the resolution of a dependency.
ResolutionErrors == {"MissingRepository", "NoPrefix", "Catalog", "NoVersionFound"}

\* The latest call ran verifyRequirementsYAML on a document it had loaded.
ReplaceRan == last.op = "replace" /\ last.loaded

\* The dependencies whose version the latest run set in memory.
VersionsSet ==
    {i \in 1..Len(last.before) : last.req[i].Version # last.before[i].Version}

\* The events of the latest run that are about the i-th dependency.
EventsOf(i) == {k \in 1..Len(last.events) : last.events[k].i = i}

\* A dependency whose resolution fails: it has no version, and has no
\* repository, or no prefix, or the version stream answers with an error
\* or with no version.
Unresolvable(d) ==
    /\ d.Version = ""
    /\ \/ d.Repository = ""
       \/ PrefixForURL(prefixes, d.Repository) = ""
       \/ LET ans == StableVersionNumber(catalog, KindChart,
                        PrefixForURL(prefixes, d.Repository) \o "/" \o d.Name)
          IN  ans.err \/ ans.version = ""

----------------------------------------------------------------------------
(* C1 *)

\* C1 as stated: a run writes the requirements file if and only if it set
\* the version of at least one dependency, and a document with no empty
\* version gives no write and no error.
C1_WriteIffVersionSet ==
    ReplaceRan =>
        /\ last.saveCalled <=> (VersionsSet # {})
        /\ (\A i \in 1..Len(last.before) : last.before[i].Version # "")
               => (~last.saveCalled /\ last.err = "")

\* C1 amended: a run whose resolution does not fail writes the file if and
\* only if it set the version of at least one dependency, and then the file
\* holds the resolved document; a run whose resolution fails writes
\* nothing; a document with no empty version gives no write and no error.
C1_WriteIffVersionSetAndResolved ==
    ReplaceRan =>
        /\ last.err \notin ResolutionErrors
               => (last.saveCalled <=> (VersionsSet # {}))
        /\ last.err \in ResolutionErrors => ~last.saveCalled
        /\ (last.saveCalled /\ last.err = "")
               => (file.exists /\ file.deps = last.req)
        /\ ~last.saveCalled => file = last.fileBefore
        /\ (\A i \in 1..Len(last.before) : last.before[i].Version # "")
               => (~last.saveCalled /\ last.err = "" /\ file = last.fileBefore)

\* A run that set a version and wrote the file.
C1_Witness ==
    /\ ReplaceRan
    /\ last.err = ""
    /\ last.saveCalled
    /\ VersionsSet # {}
    /\ file # last.fileBefore

----------------------------------------------------------------------------
(* C2 *)

\* C2: when the resolution of some dependency fails, the run returns an
\* error and the file on disk is what it was before the run.
C2_FailureLeavesFile ==
    ReplaceRan =>
        /\ (\E i \in 1..Len(last.before) : Unresolvable(last.before[i]))
               => last.err \in ResolutionErrors
        /\ last.err \in ResolutionErrors
               => (file = last.fileBefore /\ ~last.saveCalled)

\* A run that fails after it resolved an earlier dependency in memory.
C2_Witness ==
    /\ ReplaceRan
    /\ last.err \in ResolutionErrors
    /\ VersionsSet # {}
    /\ last.modified

----------------------------------------------------------------------------
(* C3 *)

\* The name C3 gives the chart: the alias if there is one, else the name.
AliasOrName(d) == IF d.Alias # "" THEN d.Alias ELSE d.Name

\* C3 as stated: every query of the catalog is for kind chart and for
\* prefix/alias-or-name of its dependency.
C3_QueryByAliasOrName ==
    ReplaceRan =>
        \A k \in 1..Len(last.events) :
            last.events[k].op = "query" =>
                LET d == last.before[last.events[k].i] IN
                /\ last.events[k].kind = KindChart
                /\ last.events[k].name =
                       PrefixForURL(prefixes, d.Repository) \o "/" \o AliasOrName(d)

\* C3 amended: every query of the catalog is for kind chart and for
\* prefix/name of its dependency, whatever its alias; a dependency with no
\* version, a repository and a prefix that the loop comes to is queried
\* for; and a version that is set is the one the catalog answered.
C3_QueryByName ==
    ReplaceRan =>
        /\ \A k \in 1..Len(last.events) :
              last.events[k].op = "query" =>
                  LET d == last.before[last.events[k].i] IN
                  /\ last.events[k].kind = KindChart
                  /\ last.events[k].name =
                         PrefixForURL(prefixes, d.Repository) \o "/" \o d.Name
        /\ \A i \in 1..Len(last.before) :
              LET d == last.before[i] IN
              /\ ( /\ d.Version = ""
                   /\ d.Repository # ""
                   /\ PrefixForURL(prefixes, d.Repository) # ""
                   /\ \A j \in 1..(i - 1) : last.req[j].Version # "" )
                     => \E k \in EventsOf(i) : last.events[k].op = "query"
              /\ i \in VersionsSet =>
                     \E k \in EventsOf(i) :
                         /\ last.events[k].op = "query"
                         /\ ~catalog[<<last.events[k].kind, last.events[k].name>>].err
                         /\ last.req[i].Version =
                                catalog[<<last.events[k].kind,
                                          last.events[k].name>>].version

\* A dependency with an alias whose version was set from the catalog.
C3_Witness ==
    /\ ReplaceRan
    /\ \E i \in VersionsSet :
           /\ last.before[i].Alias # ""
           /\ last.req[i].Version = catalog[<<KindChart, "p/n1">>].version

----------------------------------------------------------------------------
(* C4 *)

\* C4: a dependency that has a version when the run starts is the same in
\* every field when it ends, in memory and on disk, and nothing is looked
\* up for it; the only change to any dependency is an empty version set to
\* a non-empty one.
C4_PinnedUntouched ==
    ReplaceRan =>
        /\ Len(last.req) = Len(last.before)
        /\ file.exists /\ file.deps \in {last.before, last.req}
        /\ \A i \in 1..Len(last.before) :
              /\ last.before[i].Version # ""
                     => (last.req[i] = last.before[i] /\ EventsOf(i) = {})
              /\ last.req[i].Name = last.before[i].Name
              /\ last.req[i].Alias = last.before[i].Alias
              /\ last.req[i].Repository = last.before[i].Repository
              /\ i \in VersionsSet
                     => (last.before[i].Version = "" /\ last.req[i].Version # "")

\* A run that wrote the file of a document with a pinned dependency and
\* one it resolved.
C4_Witness ==
    /\ ReplaceRan
    /\ last.saveCalled /\ last.err = ""
    /\ \E i \in 1..Len(last.before) : last.before[i].Version # ""
    /\ VersionsSet # {}

----------------------------------------------------------------------------
(* C5 *)

\* C5: a run that follows a run that succeeded sets no version, leaves the
\* document and the file as they were, writes nothing and asks the catalog
\* nothing.
C5_SecondRunIdle ==
    (last.op = "replace" /\ last.prevOk) =>
        /\ ~last.modified
        /\ ~last.saveCalled
        /\ last.events = <<>>
        /\ file = last.fileBefore
        /\ last.loaded => (last.req = last.before /\ last.err = "")

\* A second run after a run that resolved versions and saved them.
C5_Witness ==
    /\ ReplaceRan
    /\ last.prevOk
    /\ last.prevModified
    /\ last.err = ""

----------------------------------------------------------------------------
(* C6 *)

\* C6: the handler returns the values it was given, and no error, when
\* there is no provider, when the provider has no values.tmpl.yaml and
\* when the template renders to nothing; in the first two cases it makes
\* no resolver and renders nothing.
C6_ValuesReturnedAsGiven ==
    last.op = "overwrite" =>
        /\ (last.provider = "" \/ last.exists = "no") =>
               /\ last.ret = last.valuesData
               /\ last.err = ""
               /\ last.created = 0
               /\ ~last.rendered
               /\ last.lookups = <<>>
        /\ (last.rendered /\ last.err = "" /\ last.overrideData.kind = "empty")
               => last.ret = last.valuesData

\* A template that rendered to nothing over hand written values.
C6_Witness ==
    /\ last.op = "overwrite"
    /\ last.rendered
    /\ last.err = ""
    /\ last.overrideData.kind = "empty"
    /\ last.valuesData.kind = "yaml"
    /\ ~last.valuesData.canonical
    /\ last.lookups # <<>>

----------------------------------------------------------------------------
(* C7 *)

\* C7: versionStream returns the empty string whenever the lookup returns
\* an error, whatever version comes beside the error, and the version of
\* the lookup when it succeeds.
C7_ErrorYieldsEmptyString ==
    last.op = "overwrite" =>
        \A j \in 1..Len(last.lookups) :
            /\ last.lookups[j].err => last.lookups[j].result = ""
            /\ ~last.lookups[j].err
                   => last.lookups[j].result = last.lookups[j].version

----------------------------------------------------------------------------
(* C8 *)

\* C8 as stated: over any sequence of calls of the two handlers
\* CreateVersionResolver is called at most once, also after a call of it
\* failed.
C8_ConstructedOnce == created <= 1

\* The resolver every query and every template lookup of the latest call
\* went to is the memoized one.
UsesTheMemoized ==
    /\ \A k \in 1..Len(last.events) :
           last.events[k].op = "query" =>
               (last.events[k].inst = versionResolver /\ versionResolver # Nil)
    /\ \A j \in 1..Len(last.lookups) :
           (last.lookups[j].inst = versionResolver /\ versionResolver # Nil)

\* C8 amended: CreateVersionResolver is called only while no resolver is
\* memoized, and once in a call; a memoized resolver is never replaced;
\* every query and every template lookup goes to the memoized resolver.
\* After a failed call that left no resolver a later call constructs again.
C8_MemoizedOnce ==
    /\ []UsesTheMemoized
    /\ [][ /\ versionResolver # Nil =>
                  (versionResolver' = versionResolver /\ created' = created)
           /\ created' # created =>
                  (versionResolver = Nil /\ created' = created + 1) ]_vars

\* A template lookup that went to a resolver an earlier call had made.
C8_Witness ==
    /\ last.op = "overwrite"
    /\ last.lookups # <<>>
    /\ last.created = 0
    /\ created = 1
    /\ versionResolver # Nil

----------------------------------------------------------------------------
(* C9 *)

\* r is the deep merge of override o over base b: r has the keys of both;
\* a key only b has keeps b's value; where both hold a mapping r holds
\* their deep merge; elsewhere r holds o's value.
RECURSIVE IsDeepMerge(_, _, _)
IsDeepMerge(r, b, o) ==
    /\ DOMAIN r = (DOMAIN b) \cup (DOMAIN o)
    /\ \A k \in DOMAIN r :
           IF k \notin DOMAIN o THEN r[k] = b[k]
           ELSE IF k \notin DOMAIN b THEN r[k] = o[k]
           ELSE IF IsMapping(b[k]) /\ IsMapping(o[k])
           THEN IsMapping(r[k]) /\ IsDeepMerge(r[k].m, b[k].m, o[k].m)
           ELSE r[k] = o[k]

\* The latest call rendered overrides that are not empty and merged them.
Merged ==
    /\ last.op = "overwrite"
    /\ last.rendered
    /\ last.err = ""
    /\ last.overrideData.kind # "empty"

\* C9: when the overrides render to a tree, the values returned are the
\* encoding of the deep merge of that tree over the tree of the values
\* given; an empty tree of overrides gives the tree of the values given.
C9_DeepMerge ==
    Merged =>
        /\ last.ret.kind = "yaml"
        /\ IsDeepMerge(last.ret.tree, LoadValues(last.valuesData).tree,
                       last.overrideData.tree)
        /\ last.overrideData.tree = <<>>
               => last.ret.tree = LoadValues(last.valuesData).tree

\* A merge in which a mapping of the overrides went into a mapping of the
\* base that kept a key of its own, beside a leaf put over a mapping.
C9_Witness ==
    /\ Merged
    /\ last.valuesData.kind = "yaml"
    /\ LET b == last.valuesData.tree
           o == last.overrideData.tree
       IN  /\ DOMAIN b = {"a", "b"} /\ DOMAIN o = {"a", "b"}
           /\ IsMapping(b["a"]) /\ IsMapping(o["a"])
           /\ DOMAIN b["a"].m = {"a", "b"} /\ DOMAIN o["a"].m = {"a"}
           /\ b["a"].m["a"] # o["a"].m["a"]
           /\ IsMapping(b["b"]) /\ ~IsMapping(o["b"])

----------------------------------------------------------------------------
(* C10 *)

\* C10: the events of a run are in the order of the document, with at most
\* one prefix lookup and one query for a dependency; only a dependency
\* with no version and with a repository is looked up; a query comes right
\* after the prefix lookup of its dependency, which found a prefix; and
\* nothing is looked up for a dependency after one that was left without
\* a version.
C10_InOrderUntilFailure ==
    ReplaceRan =>
        \A k \in 1..Len(last.events) :
            LET e == last.events[k] IN
            /\ e.i \in 1..Len(last.before)
            /\ last.before[e.i].Version = ""
            /\ last.before[e.i].Repository # ""
            /\ e.op = "query" =>
                   /\ k > 1
                   /\ last.events[k - 1].op = "prefix"
                   /\ last.events[k - 1].i = e.i
                   /\ PrefixForURL(prefixes, last.before[e.i].Repository) # ""
            /\ \A j \in 1..(k - 1) :
                   \/ last.events[j].i < e.i
                   \/ /\ last.events[j].i = e.i
                      /\ j = k - 1
                      /\ last.events[j].op = "prefix"
                      /\ e.op = "query"
            /\ \A i \in 1..(e.i - 1) : last.req[i].Version # ""

\* A run that failed at a dependency it had asked the catalog about, with
\* a dependency without a version after it.
C10_Witness ==
    /\ ReplaceRan
    /\ last.err \in {"Catalog", "NoVersionFound"}
    /\ \E k \in 1..Len(last.events) :
           /\ last.events[k].op = "query"
           /\ \E j \in (last.events[k].i + 1)..Len(last.before) :
                  /\ last.before[j].Version = ""
                  /\ last.before[j].Repository = "r1"

====
